---- MODULE Spec2Model ----
(***************************************************************************)
(* A model of pymwsqlite.PyMWSQLite: the handle (conn, cursor), the query  *)
(* builders (_select, _insert, _update, create_table, delete, drop_table)  *)
(* and the sqlite3 engine the built (text, parameters) pairs are handed to.*)
(*                                                                         *)
(* SQL text is kept as the structure the builders concatenate: the verb,   *)
(* the table name, the column list, the SET list, the WHERE terms and the  *)
(* trailing options, each fragment holding the very strings the code puts  *)
(* there.  The engine (Prepares, Binds, Execute) reads that structure back  *)
(* way sqlite parses the text: a fragment that is no identifier, an empty  *)
(* list, a placeholder with no binding make the statement fail.            *)
(*                                                                         *)
(* A Python dict is a sequence of [k, v] entries in insertion order.  A    *)
(* key is [tup, names]: a str key "c" is [FALSE, <<"c">>], a tuple key     *)
(* ("a", "b") is [TRUE, <<"a", "b">>].  A Python str that the code         *)
(* iterates or indexes (a raw condition) is a sequence of 1-character      *)
(* strings.                                                                *)
(***************************************************************************)
EXTENDS Integers, Sequences, FiniteSets, TLC

\* Rows the table may hold (the guard of insert and insertmany).
MaxRows == 3
\* Connections one handle may open in a run (the guard of open).
MaxConn == 2
\* fetchone calls followed after one selectone.
MaxFetch == 4
\* Rows of one insertmany batch.
MaxBatch == 2

\* The table the operations work on, as created by create_table.
TableName == "t"
Schema == <<"id", "name">>
ColNames == {Schema[i] : i \in 1..Len(Schema)}
\* Column values; NULL is what a column not named by an INSERT holds.
Val == {0, 1}
NULL == -1
\* conn = None, cursor = None.
None == 0

VARIABLES conn, cursor, nconn, ro, exists, tbl, qrows, pos, trail, last

vars == <<conn, cursor, nconn, ro, exists, tbl, qrows, pos, trail, last>>

---------------------------------------------------------------------------
\* Python values

SKey(c) == [tup |-> FALSE, names |-> <<c>>]
TKey(cs) == [tup |-> TRUE, names |-> cs]

DictHas(d, k) == \E i \in 1..Len(d) : d[i].k = k
DictGet(d, k) == d[CHOOSE i \in 1..Len(d) : d[i].k = k].v
DictKeys(d) == [i \in 1..Len(d) |-> d[i].k]
\* d[k] = v: an existing key keeps its place, a new key goes last.
DictSet(d, k, v) ==
  IF DictHas(d, k)
  THEN [i \in 1..Len(d) |-> IF d[i].k = k THEN [k |-> k, v |-> v] ELSE d[i]]
  ELSE Append(d, [k |-> k, v |-> v])

RECURSIVE DictUpdate(_, _)
\* d.update(e), {**d, **e}: the entries of e in order, the later one winning.
DictUpdate(d, e) ==
  IF e = <<>> THEN d
  ELSE DictUpdate(DictSet(d, Head(e).k, Head(e).v), Tail(e))

\* {i[0]: i[2] for i in conds} over a sequence of (column, operator, value).
TripleDict(triples) ==
  DictUpdate(<<>>, [i \in 1..Len(triples) |->
                      [k |-> SKey(triples[i][1]), v |-> triples[i][3]]])

\* The conditions argument: None, a str, or a sequence of triples.
CondNone == [form |-> "none", text |-> <<>>, triples |-> <<>>]
CondStr(chars) == [form |-> "str", text |-> chars, triples |-> <<>>]
CondSeq(ts) == [form |-> "seq", text |-> <<>>, triples |-> ts]

\* The columns argument: a str, a sequence of names, or a mapping whose
\* items are <<name, alias-or-declaration>>.
ColsStr(s) == [form |-> "str", text |-> s, items |-> <<>>]
ColsSeq(ns) == [form |-> "seq", text |-> "", items |-> [i \in 1..Len(ns) |-> <<ns[i], "">>]]
ColsMap(items) == [form |-> "map", text |-> "", items |-> items]

\* The params argument: None or a dict.
ParamsNone == [none |-> TRUE, d |-> <<>>]
ParamsOf(d) == [none |-> FALSE, d |-> d]

---------------------------------------------------------------------------
\* SQL text, as the fragments the builders join

NoFrag == [raw |-> FALSE, text |-> "", items |-> <<>>]
NoStmt ==
  [verb |-> "", table |-> "", cols |-> NoFrag, ins |-> <<>>, phs |-> <<>>,
   sets |-> <<>>, hasWhere |-> FALSE, whereRaw |-> FALSE, whereText |-> <<>>,
   terms |-> <<>>, opts |-> ""]

\* '{0}{1}:{0}'.format(i[0], i[1]) joined with ' AND '.
WhereTerms(triples) ==
  [i \in 1..Len(triples) |->
     [col |-> triples[i][1], op |-> triples[i][2], ph |-> triples[i][1]]]

\* The ' WHERE ...' tail select, update and delete append alike: the str
\* verbatim, or the joined terms, or nothing for None.
WithWhere(stmt, conds) ==
  IF conds.form = "str"
  THEN [stmt EXCEPT !.hasWhere = TRUE, !.whereRaw = TRUE, !.whereText = conds.text]
  ELSE IF conds.form = "seq"
  THEN [stmt EXCEPT !.hasWhere = TRUE, !.terms = WhereTerms(conds.triples)]
  ELSE stmt

\* The column fragment of SELECT: 'name AS alias' if alias else name, joined
\* with ', '; a str unchanged.
SelectCols(cols) ==
  IF cols.form = "str" THEN [raw |-> TRUE, text |-> cols.text, items |-> <<>>]
  ELSE [raw |-> FALSE, text |-> "",
        items |-> [i \in 1..Len(cols.items) |->
                     [name |-> cols.items[i][1], alias |-> cols.items[i][2]]]]

\* _select: the query text and the parameters it executes.
SelectQuery(table, cols, conds, opts) ==
  LET q0 == [NoStmt EXCEPT !.verb = "SELECT", !.table = table,
                           !.cols = SelectCols(cols)]
      q1 == WithWhere(q0, conds)
  IN  IF opts # "" THEN [q1 EXCEPT !.opts = opts] ELSE q1

\* (mutant) the explicit parameters written over the condition values.
SelectParamsExplicitWin(conds, params) ==
  LET p0 == IF params.none THEN <<>> ELSE params.d
  IN  IF conds.form = "seq" THEN DictUpdate(TripleDict(conds.triples), p0) ELSE p0
\* params = (params or {}).copy(); params.update({i[0]: i[2] for i in conds}).
SelectParams(conds, params) ==
  LET p0 == IF params.none THEN <<>> ELSE params.d
  IN  IF conds.form = "seq" THEN DictUpdate(p0, TripleDict(conds.triples)) ELSE p0

\* _insert: INSERT INTO table (c1, c2) VALUES (:c1, :c2).
\* (mutant) the placeholders listed in the reverse order of the columns.
InsertQueryReversed(table, columns) ==
  [NoStmt EXCEPT !.verb = "INSERT", !.table = table, !.ins = columns,
                 !.phs = [i \in 1..Len(columns) |-> columns[Len(columns) + 1 - i]]]
InsertQuery(table, columns) ==
  [NoStmt EXCEPT !.verb = "INSERT", !.table = table,
                 !.ins = columns, !.phs = columns]

\* _update: UPDATE table SET k=:k, ... [WHERE ...]; each key is formatted
\* into both sides of its assignment as it is.
UpdateQuery(table, columns, conds) ==
  WithWhere([NoStmt EXCEPT !.verb = "UPDATE", !.table = table,
               !.sets = [i \in 1..Len(columns) |->
                           [lhs |-> columns[i], ph |-> columns[i]]]],
            conds)

\* {i[0]: i[2] for i in (conditions or ())} of update and updatemany.  Over
\* a str the loop yields its characters, and i[2] of a 1-character str is
\* out of range.
CondValsFails(conds) ==
  conds.form = "str" /\ \E i \in 1..Len(conds.text) : 2 >= Len(<<conds.text[i]>>)
CondVals(conds) ==
  IF conds.form = "seq" THEN TripleDict(conds.triples) ELSE <<>>

\* {**values, **{i[0]: i[2] for i in (conditions or ())}}.
UpdateParams(values, conds) == DictUpdate(values, CondVals(conds))

\* delete: DELETE FROM table [WHERE ...].
DeleteQuery(table, conds) ==
  WithWhere([NoStmt EXCEPT !.verb = "DELETE", !.table = table], conds)
DeleteParams(conds) ==
  IF conds.form = "seq" THEN TripleDict(conds.triples) ELSE <<>>

\* create_table: CREATE TABLE name(decls); a mapping gives 'name decl'.
CreateQuery(table, cols) ==
  [NoStmt EXCEPT !.verb = "CREATE", !.table = table,
     !.cols = IF cols.form = "str"
              THEN [raw |-> TRUE, text |-> cols.text, items |-> <<>>]
              ELSE [raw |-> FALSE, text |-> "",
                    items |-> [i \in 1..Len(cols.items) |->
                      [name |-> IF cols.form = "map"
                                THEN cols.items[i][1] \o " " \o cols.items[i][2]
                                ELSE cols.items[i][1],
                       alias |-> ""]]]]

DropQuery(table) == [NoStmt EXCEPT !.verb = "DROP", !.table = table]

---------------------------------------------------------------------------
\* The engine: sqlite3's prepare, bind and step of one statement

Ops == {"=", ">"}
\* Raw condition texts the engine is given: id=1 and id=:x.
RawIdEq1 == <<"i", "d", "=", "1">>
RawIdEqX == <<"i", "d", "=", ":", "x">>
RawTexts == {RawIdEq1, RawIdEqX}
Declarations == {"id INTEGER", "name INTEGER"}
DeclText == "id INTEGER, name INTEGER"
OptTexts == {"", "LIMIT 1"}

Row(i, n) == [id |-> i, name |-> n]

\* A column name as the parser accepts it; a formatted tuple is none.
IsColumn(k) == ~k.tup /\ k.names[1] \in ColNames
IsName(k) == ~k.tup

WhereOK(stmt) ==
  \/ ~stmt.hasWhere
  \/ stmt.whereRaw /\ stmt.whereText \in RawTexts
  \/ /\ ~stmt.whereRaw
     /\ stmt.terms # <<>>
     /\ \A i \in 1..Len(stmt.terms) :
          stmt.terms[i].col \in ColNames /\ stmt.terms[i].op \in Ops

\* Whether the text parses and names existing things (else OperationalError).
Prepares(stmt, ex) ==
  /\ stmt.table = TableName
  /\ CASE stmt.verb = "SELECT" ->
            /\ ex
            /\ IF stmt.cols.raw THEN stmt.cols.text = "*"
               ELSE /\ stmt.cols.items # <<>>
                    /\ \A i \in 1..Len(stmt.cols.items) :
                         stmt.cols.items[i].name \in ColNames
            /\ WhereOK(stmt)
            /\ stmt.opts \in OptTexts
       [] stmt.verb = "INSERT" ->
            /\ ex
            /\ stmt.ins # <<>>
            /\ \A i \in 1..Len(stmt.ins) : IsColumn(stmt.ins[i])
            /\ \A i \in 1..Len(stmt.phs) : IsName(stmt.phs[i])
       [] stmt.verb = "UPDATE" ->
            /\ ex
            /\ stmt.sets # <<>>
            /\ \A i \in 1..Len(stmt.sets) :
                 IsColumn(stmt.sets[i].lhs) /\ IsName(stmt.sets[i].ph)
            /\ WhereOK(stmt)
       [] stmt.verb = "DELETE" -> ex /\ WhereOK(stmt)
       [] stmt.verb = "CREATE" ->
            /\ ~ex
            /\ IF stmt.cols.raw THEN stmt.cols.text = DeclText
               ELSE /\ stmt.cols.items # <<>>
                    /\ \A i \in 1..Len(stmt.cols.items) :
                         stmt.cols.items[i].name \in Declarations
       [] stmt.verb = "DROP" -> ex
       [] OTHER -> FALSE

\* The placeholder names of the text.
Placeholders(stmt) ==
  {stmt.phs[i] : i \in 1..Len(stmt.phs)}
    \cup {stmt.sets[i].ph : i \in 1..Len(stmt.sets)}
    \cup {SKey(stmt.terms[i].ph) : i \in 1..Len(stmt.terms)}
    \cup (IF stmt.whereRaw /\ stmt.whereText = RawIdEqX THEN {SKey("x")} ELSE {})

\* Whether every placeholder has a value (else ProgrammingError).
Binds(stmt, params) == \A k \in Placeholders(stmt) : DictHas(params, k)

Cmp(op, a, b) ==
  /\ a # NULL /\ b # NULL
  /\ IF op = "=" THEN a = b ELSE a > b

Matches(stmt, params, row) ==
  IF ~stmt.hasWhere THEN TRUE
  ELSE IF stmt.whereRaw
  THEN IF stmt.whereText = RawIdEq1 THEN Cmp("=", row.id, 1)
       ELSE Cmp("=", row.id, DictGet(params, SKey("x")))
  ELSE \A i \in 1..Len(stmt.terms) :
         Cmp(stmt.terms[i].op, row[stmt.terms[i].col],
             DictGet(params, SKey(stmt.terms[i].ph)))

\* One result row: the selected columns in the order of the column list.
Project(stmt, row) ==
  IF stmt.cols.raw THEN [i \in 1..Len(Schema) |-> row[Schema[i]]]
  ELSE [i \in 1..Len(stmt.cols.items) |-> row[stmt.cols.items[i].name]]

RECURSIVE Filter(_, _, _)
Filter(stmt, params, t) ==
  IF t = <<>> THEN <<>>
  ELSE IF Matches(stmt, params, Head(t))
       THEN <<Head(t)>> \o Filter(stmt, params, Tail(t))
       ELSE Filter(stmt, params, Tail(t))

ResultRows(stmt, params, t) ==
  LET hit == Filter(stmt, params, t)
      all == [i \in 1..Len(hit) |-> Project(stmt, hit[i])]
  IN  IF stmt.opts = "LIMIT 1" /\ all # <<>> THEN <<all[1]>> ELSE all

\* The row an INSERT stores: each listed column from its placeholder.
InsertedRow(stmt, params) ==
  [c \in ColNames |->
     IF \E i \in 1..Len(stmt.ins) : stmt.ins[i] = SKey(c)
     THEN DictGet(params,
                  stmt.phs[CHOOSE i \in 1..Len(stmt.ins) : stmt.ins[i] = SKey(c)])
     ELSE NULL]

\* The row an UPDATE leaves: each assigned column from its placeholder.
UpdatedRow(stmt, params, row) ==
  [c \in ColNames |->
     IF \E i \in 1..Len(stmt.sets) : stmt.sets[i].lhs = SKey(c)
     THEN DictGet(params,
                  stmt.sets[CHOOSE i \in 1..Len(stmt.sets) : stmt.sets[i].lhs = SKey(c)].ph)
     ELSE row[c]]

Writes(stmt) == stmt.verb # "SELECT"

\* cursor.execute(stmt, params) on a database [exists, tbl] opened
\* read-only or not: the error raised, the database and the result rows.
Execute(stmt, params, db, readonly) ==
  IF ~Prepares(stmt, db.exists)
  THEN [err |-> "OperationalError", exists |-> db.exists, tbl |-> db.tbl, rows |-> <<>>]
  ELSE IF ~Binds(stmt, params)
  THEN [err |-> "ProgrammingError", exists |-> db.exists, tbl |-> db.tbl, rows |-> <<>>]
  ELSE IF Writes(stmt) /\ readonly
  THEN [err |-> "OperationalError", exists |-> db.exists, tbl |-> db.tbl, rows |-> <<>>]
  ELSE CASE stmt.verb = "SELECT" ->
              [err |-> "", exists |-> db.exists, tbl |-> db.tbl,
               rows |-> ResultRows(stmt, params, db.tbl)]
         [] stmt.verb = "INSERT" ->
              [err |-> "", exists |-> db.exists,
               tbl |-> Append(db.tbl, InsertedRow(stmt, params)), rows |-> <<>>]
         [] stmt.verb = "UPDATE" ->
              [err |-> "", exists |-> db.exists,
               tbl |-> [i \in 1..Len(db.tbl) |->
                          IF Matches(stmt, params, db.tbl[i])
                          THEN UpdatedRow(stmt, params, db.tbl[i])
                          ELSE db.tbl[i]],
               rows |-> <<>>]
         [] stmt.verb = "DELETE" ->
              [err |-> "", exists |-> db.exists,
               tbl |-> SelectSeq(db.tbl, LAMBDA r : ~Matches(stmt, params, r)),
               rows |-> <<>>]
         [] stmt.verb = "CREATE" ->
              [err |-> "", exists |-> TRUE, tbl |-> <<>>, rows |-> <<>>]
         [] OTHER ->
              [err |-> "", exists |-> FALSE, tbl |-> <<>>, rows |-> <<>>]

RECURSIVE ExecuteEach(_, _, _, _)
\* The steps of executemany after the text is prepared: one per parameter
\* set, stopping at the first that fails and keeping what was done.
ExecuteEach(stmt, binds, db, readonly) ==
  IF binds = <<>>
  THEN [err |-> "", exists |-> db.exists, tbl |-> db.tbl, rows |-> <<>>]
  ELSE LET r == Execute(stmt, Head(binds), db, readonly)
       IN  IF r.err # "" THEN r
           ELSE ExecuteEach(stmt, Tail(binds),
                            [exists |-> r.exists, tbl |-> r.tbl], readonly)

\* cursor.executemany(stmt, binds).
ExecuteMany(stmt, binds, db, readonly) ==
  IF ~Prepares(stmt, db.exists)
  THEN [err |-> "OperationalError", exists |-> db.exists, tbl |-> db.tbl, rows |-> <<>>]
  ELSE ExecuteEach(stmt, binds, db, readonly)

---------------------------------------------------------------------------
\* The handle and its operations

\* What the last call was given, what it did to the engine and how it ended:
\* outcome is "ok" or the exception raised, calls the engine entry points
\* used in order, ret the rows returned (a single row or None as a sequence
\* of one or none).
BaseLast ==
  [op |-> "", outcome |-> "", ret |-> <<>>, calls |-> <<>>,
   before |-> <<>>, conn0 |-> None, cursor0 |-> None,
   values |-> <<>>, conds |-> CondNone, rows |-> <<>>, cols |-> ColsStr(""),
   params |-> ParamsNone, opts |-> "", ce |-> FALSE]

Called(fn, stmt, binds) == [fn |-> fn, stmt |-> stmt, binds |-> binds]
Did(fn) == Called(fn, NoStmt, <<>>)

Started(op) ==
  [BaseLast EXCEPT !.op = op, !.before = tbl, !.conn0 = conn, !.cursor0 = cursor]

\* The rows of the latest selectone and what selectone and each fetchone
\* after it returned, while no other query ran on the cursor.
NoTrail == [valid |-> FALSE, rows |-> <<>>, got |-> <<>>]

DB == [exists |-> exists, tbl |-> tbl]

\* _check_open refusing the call: nothing but the exception.
Refused(L) ==
  /\ last' = [L EXCEPT !.outcome = "Unopened"]
  /\ UNCHANGED <<conn, cursor, nconn, ro, exists, tbl, qrows, pos, trail>>

\* An exception raised in the wrapper itself, before the engine is used.
Raised(L, exc) ==
  /\ last' = [L EXCEPT !.outcome = exc]
  /\ UNCHANGED <<conn, cursor, nconn, ro, exists, tbl, qrows, pos, trail>>

\* (mutant) the connection closed without the commit.
CloseCallsNoCommit == <<Did("close")>>
\* self.conn.commit(); self.conn.close().
CloseCalls == <<Did("commit"), Did("close")>>

\* open(*sql_args, close_existing=ce): readonly and connects are what the
\* sqlite3.connect arguments and the file make of it.
Open(ce, readonly, connects) ==
  LET L == [Started("open") EXCEPT !.ce = ce]
      closing == conn # None /\ ce
      pre == IF closing THEN CloseCalls ELSE <<>>
  IN  /\ nconn < MaxConn
      /\ IF conn # None /\ ~ce
         THEN /\ last' = [L EXCEPT !.outcome = "DoubleOpen"]
              /\ UNCHANGED <<conn, cursor, nconn, ro, exists, tbl, qrows, pos, trail>>
         ELSE IF ~connects
         THEN /\ last' = [L EXCEPT !.outcome = "OperationalError",
                                   !.calls = pre \o <<Did("connect")>>]
              /\ IF closing
                 THEN /\ conn' = None /\ cursor' = None /\ ro' = FALSE
                      /\ qrows' = <<>> /\ pos' = 0 /\ trail' = NoTrail
                 ELSE UNCHANGED <<conn, cursor, ro, qrows, pos, trail>>
              /\ UNCHANGED <<nconn, exists, tbl>>
         ELSE /\ last' = [L EXCEPT !.outcome = "ok",
                                   !.calls = pre \o <<Did("connect"), Did("cursor")>>]
              /\ nconn' = nconn + 1
              /\ conn' = nconn + 1
              /\ cursor' = nconn + 1
              /\ ro' = readonly
              /\ qrows' = <<>> /\ pos' = 0 /\ trail' = NoTrail
              /\ UNCHANGED <<exists, tbl>>

\* close(): self.conn.commit() with conn = None is an AttributeError.
Close ==
  LET L == Started("close")
  IN  IF conn = None THEN Raised(L, "AttributeError")
      ELSE /\ last' = [L EXCEPT !.outcome = "ok", !.calls = CloseCalls]
           /\ conn' = None /\ cursor' = None /\ ro' = FALSE
           /\ qrows' = <<>> /\ pos' = 0 /\ trail' = NoTrail
           /\ UNCHANGED <<nconn, exists, tbl>>

\* __enter__.
Enter ==
  /\ last' = [Started("enter") EXCEPT !.outcome = "ok"]
  /\ UNCHANGED <<conn, cursor, nconn, ro, exists, tbl, qrows, pos, trail>>

\* __exit__: commits, does not close.
Exit ==
  LET L == Started("exit")
  IN  IF conn = None THEN Raised(L, "AttributeError")
      ELSE /\ last' = [L EXCEPT !.outcome = "ok", !.calls = <<Did("commit")>>]
           /\ UNCHANGED <<conn, cursor, nconn, ro, exists, tbl, qrows, pos, trail>>

\* self.cursor.execute(stmt, params) of a statement that returns no rows:
\* the database after it, the cursor's earlier result gone.
Ran(L, call, r) ==
  /\ last' = [L EXCEPT !.outcome = IF r.err = "" THEN "ok" ELSE r.err,
                       !.calls = <<call>>]
  /\ exists' = r.exists
  /\ tbl' = r.tbl
  /\ qrows' = <<>> /\ pos' = 0 /\ trail' = NoTrail
  /\ UNCHANGED <<conn, cursor, nconn, ro>>

\* Rows the cursor's result set has left after select, selectall, selectone.
ConsumedBy(kind, rows) ==
  IF kind = "selectall" THEN Len(rows)
  ELSE IF kind = "selectone" /\ rows # <<>> THEN 1
  ELSE 0

ReturnedBy(kind, rows) ==
  IF kind = "selectall" THEN rows
  ELSE IF kind = "selectone" /\ rows # <<>> THEN <<rows[1]>>
  ELSE <<>>

\* _select and what select, selectall and selectone do with the cursor.
SelectStep(kind, cols, conds, opts, params) ==
  LET L == [Started(kind) EXCEPT !.cols = cols, !.conds = conds,
                                 !.opts = opts, !.params = params]
      stmt == SelectQuery(TableName, cols, conds, opts)
      binds == SelectParams(conds, params)
      r == Execute(stmt, binds, DB, ro)
      call == Called("execute", stmt, <<binds>>)
  IN  IF conn = None THEN Refused(L)
      ELSE IF cursor = None THEN Raised(L, "AttributeError")
      ELSE IF r.err # "" THEN Ran(L, call, r)
      ELSE /\ last' = [L EXCEPT !.outcome = "ok", !.calls = <<call>>,
                                !.ret = ReturnedBy(kind, r.rows)]
           /\ qrows' = r.rows
           /\ pos' = ConsumedBy(kind, r.rows)
           /\ trail' = IF kind = "selectone"
                       THEN [valid |-> TRUE, rows |-> r.rows,
                             got |-> <<ReturnedBy(kind, r.rows)>>]
                       ELSE NoTrail
           /\ UNCHANGED <<conn, cursor, nconn, ro, exists, tbl>>

Select(cols, conds, opts, params) == SelectStep("select", cols, conds, opts, params)
SelectAll(cols, conds, opts, params) == SelectStep("selectall", cols, conds, opts, params)
SelectOne(cols, conds, opts, params) == SelectStep("selectone", cols, conds, opts, params)

\* (mutant) the first row again, the cursor not moving on.
FetchedStuck(rows, p) == IF rows # <<>> THEN <<rows[1]>> ELSE <<>>
\* cursor.fetchone(): the next row of the result set, None when none is left.
Fetched(rows, p) == IF p < Len(rows) THEN <<rows[p + 1]>> ELSE <<>>

FetchOne ==
  LET L == Started("fetchone")
      row == Fetched(qrows, pos)
  IN  /\ trail.valid => Len(trail.got) < MaxFetch
      /\ IF conn = None THEN Refused(L)
         ELSE IF cursor = None THEN Raised(L, "AttributeError")
         ELSE /\ last' = [L EXCEPT !.outcome = "ok", !.ret = row,
                                   !.calls = <<Did("fetchone")>>]
              /\ pos' = IF pos < Len(qrows) THEN pos + 1 ELSE pos
              /\ trail' = IF trail.valid
                          THEN [trail EXCEPT !.got = Append(@, row)]
                          ELSE trail
              /\ UNCHANGED <<conn, cursor, nconn, ro, exists, tbl, qrows>>

\* insert(table, rows): one row mapping.
Insert(row) ==
  LET L == [Started("insert") EXCEPT !.rows = <<row>>]
      stmt == InsertQuery(TableName, DictKeys(row))
      r == Execute(stmt, row, DB, ro)
  IN  IF conn = None THEN Refused(L)
      ELSE IF cursor = None THEN Raised(L, "AttributeError")
      ELSE Len(r.tbl) <= MaxRows /\ Ran(L, Called("execute", stmt, <<row>>), r)

\* insertmany(table, rows): rows[0] is read before _insert checks the handle.
InsertMany(rows) ==
  LET L == [Started("insertmany") EXCEPT !.rows = rows]
      stmt == InsertQuery(TableName, DictKeys(rows[1]))
      r == ExecuteMany(stmt, rows, DB, ro)
  IN  IF rows = <<>> THEN Raised(L, "IndexError")
      ELSE IF conn = None THEN Refused(L)
      ELSE IF cursor = None THEN Raised(L, "AttributeError")
      ELSE Len(r.tbl) <= MaxRows /\ Ran(L, Called("executemany", stmt, rows), r)

\* update(table, values, conditions).
Update(values, conds) ==
  LET L == [Started("update") EXCEPT !.values = values, !.conds = conds]
      stmt == UpdateQuery(TableName, DictKeys(values), conds)
      binds == UpdateParams(values, conds)
      r == Execute(stmt, binds, DB, ro)
  IN  IF conn = None THEN Refused(L)
      ELSE IF cursor = None THEN Raised(L, "AttributeError")
      ELSE IF CondValsFails(conds) THEN Raised(L, "IndexError")
      ELSE Ran(L, Called("execute", stmt, <<binds>>), r)

\* updatemany(table, values, conditions): values is a sequence of mappings,
\* and values.keys() is evaluated before _update is entered.
UpdateMany(values, conds) ==
  Raised([Started("updatemany") EXCEPT !.rows = values, !.conds = conds],
         "AttributeError")

\* create_table(table_name, columns).
CreateTable(cols) ==
  LET L == [Started("create_table") EXCEPT !.cols = cols]
      stmt == CreateQuery(TableName, cols)
      r == Execute(stmt, <<>>, DB, ro)
  IN  IF conn = None THEN Refused(L)
      ELSE IF cursor = None THEN Raised(L, "AttributeError")
      ELSE Ran(L, Called("execute", stmt, <<>>), r)

\* delete(table, conditions).
Delete(conds) ==
  LET L == [Started("delete") EXCEPT !.conds = conds]
      stmt == DeleteQuery(TableName, conds)
      binds == DeleteParams(conds)
      r == Execute(stmt, binds, DB, ro)
  IN  IF conn = None THEN Refused(L)
      ELSE IF cursor = None THEN Raised(L, "AttributeError")
      ELSE Ran(L, Called("execute", stmt, <<binds>>), r)

\* drop_table(table_name).
DropTable ==
  LET L == Started("drop_table")
      stmt == DropQuery(TableName)
      r == Execute(stmt, <<>>, DB, ro)
  IN  IF conn = None THEN Refused(L)
      ELSE IF cursor = None THEN Raised(L, "AttributeError")
      ELSE Ran(L, Called("execute", stmt, <<>>), r)

---------------------------------------------------------------------------
\* Construction

\* __init__(name_or_conn, read_only) on a database file that holds the table
\* or not: a filename opens a connection (read-only as a file: URI with
\* mode=ro), a Connection object is stored as conn, nothing leaves the
\* class attributes conn = cursor = None.
Constructed(how, ex) ==
  /\ exists = ex
  /\ tbl = <<>>
  /\ qrows = <<>> /\ pos = 0 /\ trail = NoTrail
  /\ IF how \in {"name", "name_ro"}
     THEN /\ conn = 1 /\ cursor = 1 /\ nconn = 1
          /\ ro = (how = "name_ro")
          /\ last = [BaseLast EXCEPT !.op = "init", !.outcome = "ok",
                        !.calls = <<Did("connect"), Did("cursor")>>]
     ELSE /\ conn = (IF how = "conn" THEN 1 ELSE None)
          /\ cursor = None
          /\ nconn = (IF how = "conn" THEN 1 ELSE 0)
          /\ ro = FALSE
          /\ last = [BaseLast EXCEPT !.op = "init", !.outcome = "ok"]

Init == \E how \in {"name", "name_ro", "conn", "nothing"}, ex \in BOOLEAN :
          Constructed(how, ex)

---------------------------------------------------------------------------
\* Arguments the operations are called with

RowDict(i, n) == <<[k |-> SKey("id"), v |-> i], [k |-> SKey("name"), v |-> n]>>
RowDictRev(i, n) == <<[k |-> SKey("name"), v |-> n], [k |-> SKey("id"), v |-> i]>>
BothCols == ColsSeq(<<"id", "name">>)
CreateMap == ColsMap(<<<<"id", "INTEGER">>, <<"name", "INTEGER">>>>)

FullRows == {RowDict(i, n) : i \in Val, n \in Val}

\* Sequences over S of length 1..n.
SeqsUpTo(S, n) == UNION {[1..m -> S] : m \in 1..n}

\* Conditions: None, raw strings (one of them empty), no triple, one triple,
\* two on one column, two on two columns.
OneTriple == {<<<<c, o, v>>>> : c \in ColNames, o \in Ops, v \in Val}
TripleConds ==
  {CondSeq(t) : t \in OneTriple}
    \cup {CondSeq(<<>>),
          CondSeq(<<<<"id", "=", 0>>, <<"id", "=", 1>>>>),
          CondSeq(<<<<"id", ">", 0>>, <<"name", "=", 0>>>>)}
RawConds == {CondStr(RawIdEq1), CondStr(<<>>)}
AllConds == {CondNone} \cup RawConds \cup TripleConds

\* values of update: one column, both columns, one tuple key for both.
UpdateValues ==
  {<<[k |-> SKey(c), v |-> v]>> : c \in ColNames, v \in Val}
    \cup {RowDict(0, 1), <<[k |-> TKey(<<"id", "name">>), v |-> 1]>>}

\* select arguments: the three column forms and the options with no
\* condition, then every condition with and without explicit params.
SomeParams == ParamsOf(<<[k |-> SKey("id"), v |-> 1], [k |-> SKey("x"), v |-> 0]>>)
SelectForms ==
  {[cols |-> c, conds |-> CondNone, opts |-> o, params |-> ParamsNone] :
     c \in {ColsStr("*"), ColsSeq(<<"name">>),
            ColsMap(<<<<"name", "n">>, <<"id", "">>>>)},
     o \in OptTexts}
SelectConds ==
  {[cols |-> BothCols, conds |-> c, opts |-> "", params |-> SomeParams] :
     c \in {CondNone, CondStr(RawIdEqX), CondSeq(<<>>),
            CondSeq(<<<<"id", "=", 1>>, <<"id", ">", 0>>>>),
            CondSeq(<<<<"id", ">", 0>>>>),
            CondSeq(<<<<"name", "=", 1>>>>),
            CondSeq(<<<<"name", ">", 0>>, <<"id", "=", 0>>>>)}}
    \cup {[cols |-> BothCols, conds |-> c, opts |-> "", params |-> ParamsNone] :
            c \in {CondStr(RawIdEqX), CondSeq(<<<<"id", "=", 0>>>>)}}
SelectArgs == SelectForms \cup SelectConds
\* insertmany batches: rows of the same keys in the same order, and the
\* batches the docstring warns of (no row, a row short of a key).
SomeRows == {RowDict(0, 0), RowDict(1, 0), RowDict(1, 1)}
Batches ==
  SeqsUpTo(SomeRows, MaxBatch)
    \cup {<<>>, <<RowDict(0, 1), <<[k |-> SKey("id"), v |-> 1]>>>>,
          <<RowDictRev(0, 1), RowDictRev(1, 1)>>}

---------------------------------------------------------------------------
\* The handle's life: every public operation, on every kind of handle

NextLife ==
  \/ \E ce \in BOOLEAN, readonly \in BOOLEAN, connects \in BOOLEAN :
       Open(ce, readonly, connects)
  \/ Close
  \/ Enter
  \/ Exit
  \/ Select(ColsStr("*"), CondNone, "", ParamsNone)
  \/ SelectAll(ColsStr("*"), CondNone, "", ParamsNone)
  \/ \E conds \in {CondNone, CondSeq(<<<<"name", "=", 1>>>>)} :
       SelectOne(BothCols, conds, "", ParamsNone)
  \/ FetchOne
  \/ Insert(RowDict(1, 0))
  \/ \E rows \in {<<>>, <<RowDict(0, 1)>>} : InsertMany(rows)
  \/ Update(<<[k |-> SKey("name"), v |-> 1]>>, CondSeq(<<<<"id", "=", 1>>>>))
  \/ UpdateMany(<<<<[k |-> SKey("name"), v |-> 1]>>>>, CondNone)
  \/ \E cols \in {CreateMap, ColsStr(DeclText), ColsSeq(<<"id INTEGER", "name INTEGER">>), ColsSeq(<<>>)} :
       CreateTable(cols)
  \/ Delete(CondSeq(<<<<"id", "=", 1>>>>))
  \/ DropTable

Spec == Init /\ [][NextLife]_vars

\* update, updatemany and delete over every table content
NextUpdate ==
  \/ CreateTable(CreateMap)
  \/ \E row \in FullRows : Insert(row)
  \/ \E values \in UpdateValues, conds \in AllConds : Update(values, conds)
  \/ \E conds \in {CondNone, CondSeq(<<<<"id", "=", 1>>>>)} :
       UpdateMany(<<<<[k |-> SKey("name"), v |-> 1]>>, <<[k |-> SKey("name"), v |-> 0]>>>>, conds)
  \/ \E conds \in {CondNone, CondStr(RawIdEq1), CondSeq(<<<<"id", "=", 1>>>>)} :
       Delete(conds)
  \/ SelectAll(BothCols, CondStr(RawIdEq1), "", ParamsNone)

SpecUpdate == Init /\ [][NextUpdate]_vars

\* select, selectall and selectone over every table content
NextSelect ==
  \/ CreateTable(CreateMap)
  \/ \E row \in SomeRows : Insert(row)
  \/ \E a \in SelectArgs : Select(a.cols, a.conds, a.opts, a.params)
  \/ \E a \in SelectArgs : SelectAll(a.cols, a.conds, a.opts, a.params)
  \/ \E a \in SelectArgs : SelectOne(a.cols, a.conds, a.opts, a.params)

SpecSelect == Init /\ [][NextSelect]_vars

\* insert and insertmany
NextInsert ==
  \/ CreateTable(CreateMap)
  \/ \E row \in SomeRows : Insert(row)
  \/ \E rows \in Batches : InsertMany(rows)
  \/ Delete(CondSeq(<<<<"id", "=", 1>>>>))
  \/ DropTable

SpecInsert == Init /\ [][NextInsert]_vars

---------------------------------------------------------------------------
\* Properties

\* The last call ran on a handle that held a connection and a cursor.
Usable == last.conn0 # None /\ last.cursor0 # None
Ended(op) == last.op = op /\ last.outcome = "ok"
SelectOps == {"select", "selectall", "selectone"}
PublicOps ==
  SelectOps \cup {"fetchone", "insert", "insertmany", "update", "updatemany",
                  "create_table", "delete", "drop_table", "close", "exit"}

\* The stored row a row mapping describes.
RowOf(d) == [c \in ColNames |-> IF DictHas(d, SKey(c)) THEN DictGet(d, SKey(c)) ELSE NULL]
\* The columns a sequence of triples names, and the value of the last
\* triple that names c.
CondCols(triples) == {triples[i][1] : i \in 1..Len(triples)}
LastValue(triples, c) ==
  triples[CHOOSE i \in 1..Len(triples) :
            triples[i][1] = c /\ \A j \in (i + 1)..Len(triples) : triples[j][1] # c][3]
\* A row satisfies every (column, operator, value).
SatisfiesAll(row, triples) ==
  \A i \in 1..Len(triples) : Cmp(triples[i][2], row[triples[i][1]], triples[i][3])
\* values names column c (as a key or inside a tuple key), and the value.
NamedIn(values, c) ==
  \E i \in 1..Len(values) : \E j \in 1..Len(values[i].k.names) : values[i].k.names[j] = c
GivenFor(values, c) ==
  values[CHOOSE i \in 1..Len(values) :
           \E j \in 1..Len(values[i].k.names) : values[i].k.names[j] = c].v

\* C1: every public operation called on a handle with no connection raises
\* the unopened-database ValueError and uses no entry point of the engine.
C1_UnopenedRaises ==
  (last.op \in PublicOps /\ last.conn0 = None)
    => (last.outcome = "Unopened" /\ last.calls = <<>>)

\* C2: an update with a sequence of condition triples that returns has set,
\* in each row that satisfies all the triples, every column named in values
\* to the value given for it, and left every other row (and column) as it
\* was; when no row satisfies them the table is as before.
C2_UpdateSetsMatchingRows ==
  (Ended("update") /\ last.conds.form = "seq")
    => /\ Len(tbl) = Len(last.before)
       /\ \A i \in 1..Len(last.before) :
            IF SatisfiesAll(last.before[i], last.conds.triples)
            THEN \A c \in ColNames :
                   tbl[i][c] = IF NamedIn(last.values, c)
                               THEN GivenFor(last.values, c)
                               ELSE last.before[i][c]
            ELSE tbl[i] = last.before[i]

\* The parameters the last select handed to the engine, and the explicit ones.
Handed == last.calls[1].binds[1]
Explicit == IF last.params.none THEN <<>> ELSE last.params.d
PassedThrough ==
  \A i \in 1..Len(Explicit) :
    Explicit[i].k \notin {SKey(c) : c \in CondCols(last.conds.triples)}
      => DictHas(Handed, Explicit[i].k) /\ DictGet(Handed, Explicit[i].k) = Explicit[i].v
SelectHandsOver ==
  (last.op \in SelectOps /\ Usable)
    => Len(last.calls) = 1 /\ last.calls[1].fn = "execute"

\* C3 (as stated): the parameters handed to the engine hold every triple's
\* value under its column, and the other explicit parameters unchanged.
C3_EveryTripleBound ==
  (last.op \in SelectOps /\ last.conds.form = "seq" /\ last.calls # <<>>)
    => /\ \A i \in 1..Len(last.conds.triples) :
            /\ DictHas(Handed, SKey(last.conds.triples[i][1]))
            /\ DictGet(Handed, SKey(last.conds.triples[i][1])) = last.conds.triples[i][3]
       /\ PassedThrough

\* C3 (amended): the parameters handed to the engine hold, under each
\* column some triple names, the value of the last triple naming it,
\* overriding an explicit parameter of that name; the other explicit
\* parameters are passed through unchanged, and nothing else is handed.
C3_LastTripleBound ==
  /\ SelectHandsOver
  /\ (last.op \in SelectOps /\ last.conds.form = "seq" /\ last.calls # <<>>)
       => /\ \A c \in CondCols(last.conds.triples) :
               /\ DictHas(Handed, SKey(c))
               /\ DictGet(Handed, SKey(c)) = LastValue(last.conds.triples, c)
          /\ PassedThrough
          /\ \A i \in 1..Len(Handed) :
               \/ Handed[i].k \in {SKey(c) : c \in CondCols(last.conds.triples)}
               \/ DictHas(Explicit, Handed[i].k)

C3_Witness ==
  /\ last.op = "selectone" /\ last.calls # <<>>
  /\ last.conds = CondSeq(<<<<"name", ">", 0>>, <<"id", "=", 0>>>>)
  /\ ~last.params.none
  /\ DictGet(Explicit, SKey("id")) = 1 /\ DictGet(Handed, SKey("id")) = 0
  /\ DictGet(Handed, SKey("x")) = 0

\* What selectall of the given columns with no condition returns now.
SelectAllReturns(cols) ==
  Execute(SelectQuery(TableName, cols, CondNone, ""), <<>>, DB, ro).rows
SameKeys(rows) == \A i \in 1..Len(rows) : DictKeys(rows[i]) = DictKeys(rows[1])
KeyNames(row) == [i \in 1..Len(row) |-> row[i].k.names[1]]
ValuesOf(row) == [i \in 1..Len(row) |-> row[i].v]

UpdateManyCall ==
  Called("executemany",
         UpdateQuery(TableName, DictKeys(last.rows[1]), last.conds),
         [i \in 1..Len(last.rows) |-> DictUpdate(last.rows[i], CondVals(last.conds))])

\* C5: updatemany builds the UPDATE text once from the first row's keys and
\* executes it once per row, in order, with the row's values merged with
\* the condition values.
C5_UpdateManyExecutesEachRow ==
  (last.op = "updatemany" /\ last.rows # <<>> /\ SameKeys(last.rows) /\ Usable)
    => last.outcome \notin {"AttributeError", "IndexError"}
       /\ last.calls = <<UpdateManyCall>>

\* C6: update takes a key that is one column name and a key that is a tuple
\* of column names; either way the statement is well formed, its
\* placeholders are bound, and every column the key names is set.
C6_UpdateKeyForms ==
  (last.op = "update" /\ last.conds = CondNone /\ Usable /\ exists /\ ~ro)
    => /\ last.outcome = "ok"
       /\ Prepares(last.calls[1].stmt, exists)
       /\ Binds(last.calls[1].stmt, last.calls[1].binds[1])
       /\ \A i \in 1..Len(tbl) : \A c \in ColNames :
            NamedIn(last.values, c) => tbl[i][c] = GivenFor(last.values, c)

\* C7: with a raw-string condition select, update and delete alike execute
\* their statement with ' WHERE ' and the string, derive no parameter from
\* it and raise nothing of their own.
C7_RawConditionUniform ==
  (last.op \in SelectOps \cup {"update", "delete"} /\ last.conds.form = "str" /\ Usable)
    => /\ Len(last.calls) = 1
       /\ last.calls[1].stmt.hasWhere /\ last.calls[1].stmt.whereRaw
       /\ last.calls[1].stmt.whereText = last.conds.text
       /\ last.calls[1].binds[1] =
            (IF last.op = "update" THEN last.values
             ELSE IF last.op = "delete" THEN <<>> ELSE Explicit)
       /\ last.outcome \notin {"AttributeError", "IndexError"}

\* C8: selectone returns the first row of its result (None if there is
\* none), and while no other query runs on the handle the k-th fetchone
\* after it returns row k+1, and None once the rows are used up.
C8_FetchOneResumes ==
  /\ trail.valid =>
       \A j \in 1..Len(trail.got) :
         trail.got[j] = IF j <= Len(trail.rows) THEN <<trail.rows[j]>> ELSE <<>>
  /\ (trail.valid /\ last.op \in {"selectone", "fetchone"} /\ last.outcome = "ok")
       => last.ret = trail.got[Len(trail.got)]
  /\ (Ended("selectone") \/ (Ended("fetchone") /\ trail.got # <<>>)) => trail.valid

C8_Witness ==
  /\ Ended("fetchone") /\ trail.valid
  /\ Len(trail.rows) = 2 /\ Len(trail.got) = 4
  /\ trail.rows[1] # trail.rows[2]

\* C9: open on a handle that holds a connection raises the double-open
\* error and leaves conn and cursor alone unless close_existing is given;
\* with it the old connection is committed, then closed, and only then the
\* new one is made, and the handle holds it with a cursor of its own.
C9_OpenOnOpenHandle ==
  (last.op = "open" /\ last.conn0 # None)
    => IF ~last.ce
       THEN /\ last.outcome = "DoubleOpen" /\ last.calls = <<>>
            /\ conn = last.conn0 /\ cursor = last.cursor0
       ELSE /\ Len(last.calls) >= 3
            /\ SubSeq(last.calls, 1, 3) = <<Did("commit"), Did("close"), Did("connect")>>
            /\ last.outcome = "ok" =>
                 /\ last.calls = <<Did("commit"), Did("close"), Did("connect"), Did("cursor")>>
                 /\ conn # None /\ conn # last.conn0
                 /\ cursor = conn /\ cursor # last.cursor0

C9_Witness ==
  /\ Ended("open") /\ last.ce /\ last.conn0 # None /\ last.cursor0 # None
  /\ conn = MaxConn

\* C10: the handle holds a connection exactly when it holds a cursor.
C10_ConnIffCursor == (conn # None) <=> (cursor # None)

====
